---- MODULE Spec2Model ----
(***************************************************************************)
(* Booking lifecycle and payment confirmation of the house-rental backend. *)
(* Rows of the Django tables are records kept in functions keyed by the    *)
(* row id; every service call is one atomic action (one request per        *)
(* worker, run to completion).  Money is held in cents, dates are day      *)
(* numbers.                                                                 *)
(***************************************************************************)
EXTENDS Integers, Sequences, FiniteSets, TLC

\* ------------------------------------------------------------------ bounds
MaxDay == 4
MaxBookings == 2
MaxUsers == 5
MaxIntents == 2
MaxPayments == 3
MaxMethods == 2
MaxTime == 5
\* the decorator's arguments
limit == 2
period == 2

Days == 1..MaxDay

\* ------------------------------------------------------------- vocabulary
\* users/models.py Role
ADMIN == "admin"
AGENT == "agent"
TENANT == "tenant"

\* bookings/models.py BookingStatus
PENDING == "pending"
CONFIRMED == "confirmed"
CANCELLED == "cancelled"
COMPLETED == "completed"
BookingStatus == {PENDING, CONFIRMED, CANCELLED, COMPLETED}

\* properties/models.py PropertyStatus
P_PENDING == "pending"
APPROVED == "approved"
DENIED == "denied"
RENTED == "rented"
PropertyStatus == {P_PENDING, APPROVED, DENIED, RENTED}

\* absent values: Python None / SQL NULL of an id or of a date
NULL == 0
NoEmail == <<"", "">>
NoRef == <<"null", 0>>
UNSET == "unset"

\* e-mail addresses are <<local part, domain>> pairs
Emails == {<<"ann", "x">>, <<"ann", "y">>, <<"bob", "x">>}

\* ----------------------------------------------------------------- state
VARIABLES
    today,          \* timezone.now().date()
    users,          \* users_user rows
    properties,     \* properties_property rows
    bookings,       \* bookings_booking rows
    nextBookingId,  \* the AutoField sequence of bookings_booking
    reviews,        \* ids of the bookings that have a BookingReview row
    cache,          \* django cache entries "booking_<id>"
    got,            \* what the last get_booking returned
    intents,        \* payments_paymentintent rows
    nextIntentId,   \* the AutoField sequence of payments_paymentintent
    payments,       \* payments_payment rows
    nextPaymentId,  \* the AutoField sequence of payments_payment
    stripe,         \* the provider's status of each intent it holds
    events,         \* webhook events the provider has emitted
    use_mock,       \* STRIPE_SECRET_KEY is not configured
    procs,          \* the requests in progress, each between two of its steps
    limiter,        \* the clock, one "ratelimit:<key>:<ip>" cache entry, the views run
    methods,        \* payments_paymentmethod rows
    nextMethodId,   \* the AutoField sequence of payments_paymentmethod
    lastOp          \* the last call made and its outcome

bookVars == <<today, users, properties, bookings, nextBookingId, reviews>>
cacheVars == <<cache, got>>
methodVars == <<methods, nextMethodId>>
runVars == <<use_mock, procs, limiter>>
payVars ==
    <<intents, nextIntentId, payments, nextPaymentId, stripe, events, runVars,
      methodVars>>
vars == <<bookVars, cacheVars, payVars, lastOp>>

NoView == [present |-> FALSE, status |-> "", is_paid |-> FALSE,
           payment_date |-> NULL, payment_id |-> NoRef, review |-> FALSE]

Op(op, res, caller, bid, pid, cin, cout, arg, email) ==
    [op |-> op, res |-> res, caller |-> caller, bid |-> bid, pid |-> pid,
     cin |-> cin, cout |-> cout, arg |-> arg, email |-> email,
     intent |-> NULL, payment |-> NULL, ref |-> NoRef, rep |-> FALSE,
     before |-> NoRef, method |-> NULL]

\* two requests can be in progress at once
ProcIds == {"a", "b"}

\* a request's local copy of the intent row (select_related: the payment
\* comes with it) and the payment it made
Idle == [pc |-> "idle", kind |-> "", user |-> NULL, intent |-> NULL,
         status |-> "", payment |-> NULL, made |-> NULL]

\* no cache entry under the rate limiter's key
NoData == [count |-> 0, timestamp |-> 0, expires |-> 0]

SeedUsers ==
    (1 :> [username |-> <<"root", 0>>, email |-> <<"root", "x">>,
           role |-> ADMIN, is_active |-> TRUE])
    @@ (2 :> [username |-> <<"own", 0>>, email |-> <<"own", "x">>,
              role |-> AGENT, is_active |-> TRUE])
    @@ (3 :> [username |-> <<"ann", 0>>, email |-> <<"ann", "x">>,
              role |-> TENANT, is_active |-> TRUE])

SeedProperties ==
    (1 :> [owner |-> 2, status |-> APPROVED, price_per_night |-> 10000])
    @@ (2 :> [owner |-> 2, status |-> P_PENDING, price_per_night |-> 2550])

\* the state after set-up with the given user and property rows
InitFrom(user_rows, property_rows) ==
    /\ today = 2
    /\ users = user_rows
    /\ properties = property_rows
    /\ bookings = << >>
    /\ nextBookingId = 1
    /\ reviews = {}
    /\ cache = [b \in 1..MaxBookings |-> NoView]
    /\ got = NoView
    /\ intents = << >>
    /\ nextIntentId = 1
    /\ payments = << >>
    /\ nextPaymentId = 1
    /\ stripe = << >>
    /\ events = {}
    /\ use_mock \in BOOLEAN
    /\ procs = [p \in ProcIds |-> Idle]
    /\ limiter = [now |-> 0, data |-> NoData, passed |-> [t \in 0..MaxTime |-> 0]]
    /\ methods = << >>
    /\ nextMethodId = 1
    /\ lastOp = Op("init", "ok", NULL, NULL, NULL, NULL, NULL, "", NoEmail)

\* ------------------------------------------------ bookings/repositories.py
\* Booking.objects.filter(property=..., status=CONFIRMED,
\*                        check_in_date__lt=check_out, check_out_date__gt=check_in)
overlapping_bookings_closed(property_id, check_in_date, check_out_date) ==
    {b \in DOMAIN bookings :
        /\ bookings[b].property = property_id
        /\ bookings[b].status = CONFIRMED
        /\ bookings[b].check_in_date <= check_out_date
        /\ bookings[b].check_out_date >= check_in_date}

overlapping_bookings(property_id, check_in_date, check_out_date) ==
    {b \in DOMAIN bookings :
        /\ bookings[b].property = property_id
        /\ bookings[b].status = CONFIRMED
        /\ bookings[b].check_in_date < check_out_date
        /\ bookings[b].check_out_date > check_in_date}

check_property_availability(property_id, check_in_date, check_out_date) ==
    /\ overlapping_bookings(property_id, check_in_date, check_out_date) = {}
    /\ properties[property_id].status # RENTED

\* get_bookings_by_property(property_obj, status=...): the first page suffices,
\* the caller only tests it for emptiness
get_bookings_by_property(property_id, status) ==
    {b \in DOMAIN bookings :
        bookings[b].property = property_id /\ bookings[b].status = status}

\* --------------------------------------------------- users/repositories.py
\* User.objects.get(email=email): DoesNotExist is caught, MultipleObjectsReturned
\* is not
users_with_email(email) == {u \in DOMAIN users : users[u].email = email}

get_user_by_username(username) ==
    {u \in DOMAIN users : users[u].username = username}

\* ---------------------------------------------------- bookings/strategies.py
Resolved(res, user, created) == [res |-> res, user |-> user, created |-> created]

\* LoggedInBookingStrategy.prepare_tenant
LoggedIn_prepare_tenant(user) ==
    IF users[user].role # TENANT /\ users[user].role # ADMIN
    THEN Resolved("role_not_allowed", NULL, FALSE)
    ELSE Resolved("ok", user, FALSE)

\* username = base; counter = 1; while taken: username = base + str(counter)
RECURSIVE unique_username(_, _)
unique_username(base, counter) ==
    IF get_user_by_username(<<base, counter>>) = {}
    THEN <<base, counter>>
    ELSE unique_username(base, counter + 1)

new_user_id == Cardinality(DOMAIN users) + 1

\* GuestBookingStrategy.prepare_tenant; user_info = [present, complete, email]
Guest_prepare_tenant_any(user_info) ==
    LET existing == users_with_email(user_info.email) IN
    IF ~user_info.complete THEN Resolved("missing_user_info", NULL, FALSE)
    ELSE IF Cardinality(existing) > 1 THEN Resolved("multiple_users", NULL, FALSE)
    ELSE IF existing # {} THEN Resolved("ok", CHOOSE u \in existing : TRUE, FALSE)
    ELSE Resolved("ok", new_user_id, TRUE)

Guest_prepare_tenant_never_reuses(user_info) ==
    LET existing == users_with_email(user_info.email) IN
    IF ~user_info.complete THEN Resolved("missing_user_info", NULL, FALSE)
    ELSE IF Cardinality(existing) > 1 THEN Resolved("multiple_users", NULL, FALSE)
    ELSE IF existing # {} THEN
        LET existing_user == CHOOSE u \in existing : TRUE IN
        IF ~users[existing_user].is_active
        THEN Resolved("ok", new_user_id, TRUE)
        ELSE Resolved("please_log_in", NULL, FALSE)
    ELSE Resolved("ok", new_user_id, TRUE)

Guest_prepare_tenant(user_info) ==
    LET existing == users_with_email(user_info.email) IN
    IF ~user_info.complete THEN Resolved("missing_user_info", NULL, FALSE)
    ELSE IF Cardinality(existing) > 1 THEN Resolved("multiple_users", NULL, FALSE)
    ELSE IF existing # {} THEN
        LET existing_user == CHOOSE u \in existing : TRUE IN
        IF ~users[existing_user].is_active
        THEN Resolved("ok", existing_user, FALSE)
        ELSE Resolved("please_log_in", NULL, FALSE)
    ELSE Resolved("ok", new_user_id, TRUE)

guest_user_row_active(email) ==
    [username |-> unique_username(email[1], 0), email |-> email,
     role |-> TENANT, is_active |-> TRUE]

\* the row UserRepository.create_user inserts for a guest
guest_user_row(email) ==
    [username |-> unique_username(email[1], 0), email |-> email,
     role |-> TENANT, is_active |-> FALSE]

NoUserInfo == [present |-> FALSE, complete |-> FALSE, email |-> NoEmail]

\* ------------------------------------------------------ bookings/services.py
create_booking_validation_no_dates(property_id, check_in_date, check_out_date) ==
    IF property_id \notin DOMAIN properties THEN "property_not_found"
    ELSE IF properties[property_id].status # APPROVED THEN "property_not_approved"
    ELSE IF ~check_property_availability(property_id, check_in_date, check_out_date)
         THEN "dates_unavailable"
    ELSE "ok"

\* the checks of create_booking that precede tenant resolution, in order
create_booking_validation(property_id, check_in_date, check_out_date) ==
    IF property_id \notin DOMAIN properties THEN "property_not_found"
    ELSE IF properties[property_id].status # APPROVED THEN "property_not_approved"
    ELSE IF check_in_date < today THEN "past_check_in"
    ELSE IF check_out_date <= check_in_date THEN "bad_dates"
    ELSE IF check_out_date - check_in_date < 1 THEN "minimum_stay"
    ELSE IF ~check_property_availability(property_id, check_in_date, check_out_date)
         THEN "dates_unavailable"
    ELSE "ok"

total_price_plus_one(price_per_night, check_in_date, check_out_date) ==
    price_per_night * (check_out_date - check_in_date + 1)

\* duration = (check_out_date - check_in_date).days; price_per_night * duration
total_price(price_per_night, check_in_date, check_out_date) ==
    price_per_night * (check_out_date - check_in_date)

info_tag(user_info) ==
    IF ~user_info.present THEN "" ELSE IF user_info.complete THEN "complete"
    ELSE "incomplete"

resolve_tenant(tenant, user_info) ==
    IF tenant # NULL THEN LoggedIn_prepare_tenant(tenant)
    ELSE IF user_info.present THEN Guest_prepare_tenant(user_info)
    ELSE Resolved("no_tenant_or_user_info", NULL, FALSE)

create_booking(tenant, property_id, check_in_date, check_out_date, user_info) ==
    LET v == create_booking_validation(property_id, check_in_date, check_out_date)
        t == IF v = "ok" THEN resolve_tenant(tenant, user_info)
             ELSE Resolved(v, NULL, FALSE)
    IN
    /\ nextBookingId <= MaxBookings
    /\ t.created => Cardinality(DOMAIN users) < MaxUsers
    /\ IF t.res = "ok"
       THEN /\ users' = IF t.created
                        THEN users @@ (t.user :> guest_user_row(user_info.email))
                        ELSE users
            /\ bookings' = bookings @@ (nextBookingId :>
                    [property |-> property_id, tenant |-> t.user,
                     check_in_date |-> check_in_date,
                     check_out_date |-> check_out_date,
                     total_price |-> total_price(
                         properties[property_id].price_per_night,
                         check_in_date, check_out_date),
                     status |-> PENDING, is_paid |-> FALSE,
                     payment_date |-> NULL, payment_id |-> NoRef])
            /\ nextBookingId' = nextBookingId + 1
            /\ lastOp' = Op("create_booking", "ok", tenant, nextBookingId,
                            property_id, check_in_date, check_out_date,
                            info_tag(user_info), user_info.email)
       ELSE /\ UNCHANGED <<users, bookings, nextBookingId>>
            /\ lastOp' = Op("create_booking", t.res, tenant, NULL,
                            property_id, check_in_date, check_out_date,
                            info_tag(user_info), user_info.email)
    /\ UNCHANGED <<today, properties, reviews, cacheVars, payVars>>

\* _is_valid_status_transition
valid_transitions_lax(current_status) ==
    CASE current_status = PENDING -> {CONFIRMED, CANCELLED}
      [] current_status = CONFIRMED -> {CANCELLED, COMPLETED}
      [] current_status = CANCELLED -> {}
      [] current_status = COMPLETED -> {CONFIRMED}
      [] OTHER -> {}

valid_transitions(current_status) ==
    CASE current_status = PENDING -> {CONFIRMED, CANCELLED}
      [] current_status = CONFIRMED -> {CANCELLED, COMPLETED}
      [] current_status = CANCELLED -> {}
      [] current_status = COMPLETED -> {}
      [] OTHER -> {}

_is_valid_status_transition(current_status, new_status) ==
    new_status \in valid_transitions(current_status)

\* the permission test shared by update_booking_status and mark_booking_as_paid
may_update_booking_anyone(user, booking_id) == TRUE

may_update_booking(user, booking_id) ==
    /\ ~(users[user].role = TENANT /\ user # bookings[booking_id].tenant)
    /\ ~(users[user].role = AGENT
          /\ user # properties[bookings[booking_id].property].owner)

\* the property status update_booking_status leaves behind, given the bookings
\* as they are after the status was written
property_status_after_never_released(property_id, status, bookings_after) ==
    IF status = CONFIRMED THEN RENTED ELSE properties[property_id].status

property_status_after(property_id, status, bookings_after) ==
    IF status = CONFIRMED THEN RENTED
    ELSE IF status \in {CANCELLED, COMPLETED}
            /\ {b \in DOMAIN bookings_after :
                    /\ bookings_after[b].property = property_id
                    /\ bookings_after[b].status = CONFIRMED} = {}
         THEN APPROVED
    ELSE properties[property_id].status

update_booking_status(booking_id, status, user) ==
    LET res == IF booking_id \notin DOMAIN bookings THEN "booking_not_found"
               ELSE IF ~may_update_booking(user, booking_id) THEN "permission_denied"
               ELSE IF ~_is_valid_status_transition(bookings[booking_id].status, status)
                    THEN "invalid_transition"
               ELSE "ok"
    IN
    /\ IF res = "ok"
       THEN LET after == [bookings EXCEPT ![booking_id].status = status]
                pid == bookings[booking_id].property
            IN /\ bookings' = after
               /\ properties' = [properties EXCEPT ![pid].status =
                                    property_status_after(pid, status, after)]
               /\ cache' = [cache EXCEPT ![booking_id] = NoView]
       ELSE UNCHANGED <<bookings, properties, cache>>
    /\ lastOp' = Op("update_booking_status", res, user, booking_id, NULL,
                    NULL, NULL, status, NoEmail)
    /\ UNCHANGED <<today, users, nextBookingId, reviews, got, payVars>>

\* _format_booking_detail: the fields of the detail view that writes change
view_of(booking_id) ==
    [present |-> TRUE, status |-> bookings[booking_id].status,
     is_paid |-> bookings[booking_id].is_paid,
     payment_date |-> bookings[booking_id].payment_date,
     payment_id |-> bookings[booking_id].payment_id,
     review |-> booking_id \in reviews]

\* what get_booking returns and what it leaves in the cache, given the rows
\* and the review ids as they are when it runs
get_booking_result(booking_id, rows, reviewed) ==
    IF cache[booking_id].present THEN cache[booking_id]
    ELSE IF booking_id \in DOMAIN rows
         THEN [present |-> TRUE, status |-> rows[booking_id].status,
               is_paid |-> rows[booking_id].is_paid,
               payment_date |-> rows[booking_id].payment_date,
               payment_id |-> rows[booking_id].payment_id,
               review |-> booking_id \in reviewed]
    ELSE NoView

get_booking(booking_id) ==
    /\ got' = get_booking_result(booking_id, bookings, reviews)
    /\ cache' = [cache EXCEPT ![booking_id] = got']
    /\ lastOp' = Op("get_booking", IF got'.present THEN "ok" ELSE "none", NULL,
                    booking_id, NULL, NULL, NULL, "", NoEmail)
    /\ UNCHANGED <<bookVars, payVars>>

\* the cache entry passes its CACHE_TIMEOUT
cache_expire(booking_id) ==
    /\ cache[booking_id].present
    /\ cache' = [cache EXCEPT ![booking_id] = NoView]
    /\ lastOp' = Op("cache_expire", "ok", NULL, booking_id, NULL, NULL, NULL, "",
                    NoEmail)
    /\ UNCHANGED <<bookVars, got, payVars>>

mark_booking_as_paid(booking_id, payment_id, user) ==
    LET res == IF booking_id \notin DOMAIN bookings THEN "booking_not_found"
               ELSE IF ~may_update_booking(user, booking_id) THEN "permission_denied"
               ELSE "ok"
    IN
    /\ IF res = "ok"
       THEN /\ bookings' = [bookings EXCEPT ![booking_id].is_paid = TRUE,
                                            ![booking_id].payment_id = payment_id,
                                            ![booking_id].payment_date = today]
            /\ cache' = [cache EXCEPT ![booking_id] = NoView]
       ELSE UNCHANGED <<bookings, cache>>
    /\ lastOp' = [Op("mark_booking_as_paid", res, user, booking_id, NULL, NULL,
                     NULL, "", NoEmail) EXCEPT !.ref = payment_id]
    /\ UNCHANGED <<today, users, properties, nextBookingId, reviews, got, payVars>>

review_outcome_any_status(booking_id, user) ==
    IF booking_id \notin DOMAIN bookings THEN "booking_not_found"
    ELSE IF user # bookings[booking_id].tenant THEN "only_tenant"
    ELSE IF booking_id \in reviews THEN "already_reviewed"
    ELSE "ok"

\* the checks of create_booking_review, in order
review_outcome(booking_id, user) ==
    IF booking_id \notin DOMAIN bookings THEN "booking_not_found"
    ELSE IF user # bookings[booking_id].tenant THEN "only_tenant"
    ELSE IF bookings[booking_id].status # COMPLETED THEN "not_completed"
    ELSE IF booking_id \in reviews THEN "already_reviewed"
    ELSE "ok"

create_booking_review(booking_id, user) ==
    LET res == review_outcome(booking_id, user)
    IN
    /\ IF res = "ok"
       THEN /\ reviews' = reviews \cup {booking_id}
            /\ cache' = [cache EXCEPT ![booking_id] = NoView]
       ELSE UNCHANGED <<reviews, cache>>
    /\ lastOp' = Op("create_booking_review", res, user, booking_id, NULL, NULL,
                    NULL, "", NoEmail)
    /\ UNCHANGED <<today, users, properties, bookings, nextBookingId, got, payVars>>

\* update_booking_payment writes the row and answers with get_booking
update_booking_payment(booking_id, is_paid, payment_id, user) ==
    LET res == IF booking_id \notin DOMAIN bookings THEN "booking_not_found"
               ELSE IF ~may_update_booking(user, booking_id) THEN "permission_denied"
               ELSE "ok"
    IN
    /\ IF res = "ok"
       THEN /\ bookings' = [bookings EXCEPT
                    ![booking_id].is_paid = is_paid,
                    ![booking_id].payment_id = IF is_paid THEN payment_id ELSE NoRef,
                    ![booking_id].payment_date = IF is_paid THEN today ELSE NULL]
            /\ got' = get_booking_result(booking_id, bookings', reviews)
            /\ cache' = [cache EXCEPT ![booking_id] = got']
       ELSE UNCHANGED <<bookings, cache, got>>
    /\ lastOp' = [Op("update_booking_payment", res, user, booking_id, NULL, NULL,
                     NULL, IF is_paid THEN "paid" ELSE "unpaid", NoEmail)
                  EXCEPT !.ref = payment_id]
    /\ UNCHANGED <<today, users, properties, nextBookingId, reviews, payVars>>

\* delete_booking; the review, the payment intents and the payments of the
\* booking go with it (on_delete CASCADE)
delete_booking(booking_id, user) ==
    LET res == IF booking_id \notin DOMAIN bookings THEN "false"
               ELSE IF ~may_update_booking(user, booking_id) THEN "permission_denied"
               ELSE "ok"
    IN
    /\ IF res = "ok"
       THEN /\ bookings' = [b \in DOMAIN bookings \ {booking_id} |-> bookings[b]]
            /\ reviews' = reviews \ {booking_id}
            /\ intents' = [i \in {x \in DOMAIN intents :
                                    intents[x].booking # booking_id} |-> intents[i]]
            /\ payments' = [q \in {x \in DOMAIN payments :
                                    payments[x].booking # booking_id} |-> payments[q]]
       ELSE UNCHANGED <<bookings, reviews, intents, payments>>
    /\ lastOp' = Op("delete_booking", res, user, booking_id, NULL, NULL, NULL, "",
                    NoEmail)
    /\ UNCHANGED <<today, users, properties, nextBookingId, cacheVars,
                   nextIntentId, nextPaymentId, stripe, events, runVars, methodVars>>

\* ---------------------------------------------------- properties/services.py
\* PropertyService.update_property(property_id, owner, **property_data) with
\* property_data holding status and/or price_per_night (UNSET / NULL: not given)
update_property(property_id, owner, status, price_per_night) ==
    LET res == IF property_id \notin DOMAIN properties THEN "property_not_found"
               ELSE IF properties[property_id].owner # owner
                       /\ users[owner].role # ADMIN THEN "permission_denied"
               ELSE "ok"
    IN
    /\ IF res = "ok"
       THEN properties' = [properties EXCEPT ![property_id] =
                [owner |-> @.owner,
                 status |-> IF status = UNSET THEN @.status ELSE status,
                 price_per_night |-> IF price_per_night = NULL
                                     THEN @.price_per_night
                                     ELSE price_per_night]]
       ELSE UNCHANGED properties
    /\ lastOp' = Op("update_property", res, owner, NULL, property_id,
                    NULL, NULL, status, NoEmail)
    /\ UNCHANGED <<today, users, bookings, nextBookingId, reviews, cacheVars,
                   payVars>>

\* ------------------------------------------------------- payments/models.py
\* PaymentIntentStatus values and the provider's spelling of a cancelled intent
REQUIRES_PAYMENT_METHOD == "requires_payment_method"
REQUIRES_ACTION == "requires_action"
SUCCEEDED == "succeeded"
PI_CANCELLED == "cancelled"
STRIPE_CANCELED == "canceled"

\* Payment.PaymentStatus
PAY_COMPLETED == "completed"
PAY_REFUNDED == "refunded"
PaymentStatus ==
    {"pending", "processing", PAY_COMPLETED, "failed", PAY_REFUNDED, "canceled"}

\* the provider's id of the intent held in row i
stripe_id(i) == <<"pi", i>>

Payment_save_keeps_booking(booking_id, ref) == bookings

\* Payment.save of a COMPLETED payment: an unpaid booking becomes paid
Payment_save(booking_id, ref) ==
    IF booking_id \in DOMAIN bookings /\ ~bookings[booking_id].is_paid
    THEN [bookings EXCEPT ![booking_id].is_paid = TRUE,
                          ![booking_id].payment_date = today,
                          ![booking_id].payment_id = ref]
    ELSE bookings

\* ------------------------------------------------- payments/repositories.py
\* PaymentRepository.create_payment with status COMPLETED
create_payment(booking_id, user, ref) ==
    payments @@ (nextPaymentId :>
        [booking |-> booking_id, user |-> user, status |-> PAY_COMPLETED,
         completed_at |-> TRUE,
         stripe_payment_intent_id |-> ref])

\* PaymentIntentRepository.create_payment_intent for the booking's tenant, the
\* provider holding the new intent
repo_create_payment_intent_for(user, booking_id) ==
    /\ nextIntentId <= MaxIntents
    /\ booking_id \in DOMAIN bookings
    /\ intents' = intents @@ (nextIntentId :>
            [booking |-> booking_id, user |-> user,
             status |-> REQUIRES_PAYMENT_METHOD, payment |-> NULL,
             stripe_payment_intent_id |-> stripe_id(nextIntentId)])
    /\ nextIntentId' = nextIntentId + 1
    /\ stripe' = IF use_mock THEN stripe
                 ELSE stripe @@ (nextIntentId :> REQUIRES_PAYMENT_METHOD)
    /\ lastOp' = [Op("repo_create_payment_intent", "ok", NULL, booking_id, NULL,
                     NULL, NULL, "", NoEmail) EXCEPT !.intent = nextIntentId]
    /\ UNCHANGED <<bookVars, cacheVars, payments, nextPaymentId, events, runVars, methodVars>>

\* the row GuestPaymentStrategy stores: the payer is the booking's tenant
repo_create_payment_intent(booking_id) ==
    repo_create_payment_intent_for(bookings[booking_id].tenant, booking_id)

\* --------------------------------------------------- payments/strategies.py
\* LoggedInPaymentStrategy.create_payment_intent (user # NULL) and
\* GuestPaymentStrategy.create_payment_intent (user = NULL): the lookup of an
\* existing intent calls a method PaymentIntentRepository does not define
\* the checks of create_payment_intent, in the order the code makes them
intent_outcome_skips_paid(user, booking_id) ==
    IF booking_id \notin DOMAIN bookings THEN "booking_not_found"
    ELSE IF user # NULL /\ bookings[booking_id].tenant # user
            /\ users[user].role # ADMIN THEN "permission_denied"
    ELSE "attribute_error"

intent_outcome(user, booking_id) ==
    IF booking_id \notin DOMAIN bookings THEN "booking_not_found"
    ELSE IF user # NULL /\ bookings[booking_id].tenant # user
            /\ users[user].role # ADMIN THEN "permission_denied"
    ELSE IF bookings[booking_id].is_paid THEN "already_paid"
    ELSE "attribute_error"

create_payment_intent(user, booking_id) ==
    LET res == intent_outcome(user, booking_id)
        again == /\ lastOp.op = "create_payment_intent"
                 /\ lastOp.caller = user
                 /\ lastOp.bid = booking_id
    IN
    /\ lastOp' = [Op("create_payment_intent", res, user, booking_id, NULL,
                     NULL, NULL, "", NoEmail)
                  EXCEPT !.rep = again,
                         !.before = IF again THEN lastOp.ref ELSE NoRef]
    /\ UNCHANGED <<bookVars, cacheVars, payVars>>

\* ----------------------------------------------------- the payment provider
\* the customer completes, fails or abandons the payment on the provider's
\* side; the provider emits the matching webhook event
stripe_client(i, outcome) ==
    /\ ~use_mock
    /\ i \in DOMAIN stripe
    /\ stripe[i] \notin {SUCCEEDED, STRIPE_CANCELED}
    /\ stripe' = [stripe EXCEPT ![i] =
                    CASE outcome = "succeeded" -> SUCCEEDED
                      [] outcome = "failed" -> REQUIRES_PAYMENT_METHOD
                      [] OTHER -> STRIPE_CANCELED]
    /\ events' = events \cup
                    {<<CASE outcome = "succeeded" -> "payment_intent.succeeded"
                         [] outcome = "failed" -> "payment_intent.payment_failed"
                         [] OTHER -> "payment_intent.canceled", i>>}
    /\ lastOp' = [Op("stripe_client", outcome, NULL, NULL, NULL, NULL, NULL, "",
                     NoEmail) EXCEPT !.intent = i]
    /\ UNCHANGED <<bookVars, cacheVars, intents, nextIntentId, payments,
                   nextPaymentId, runVars, methodVars>>

\* ----------------------------------------------------- payments/services.py
\* `not db_payment_intent.payment`
payment_missing_always(i) == TRUE

payment_missing(i) == intents[i].payment = NULL

\* the owner of the intent, an admin, or anyone when the booking's tenant is an
\* inactive (guest) account
may_confirm_payment(user, i) ==
    \/ intents[i].user = user
    \/ users[user].role = ADMIN
    \/ ~users[bookings[intents[i].booking].tenant].is_active

\* the provider's payment method ids pm_1, pm_2, ...
pm_id(k) == <<"pm", k>>

\* PaymentMethod.save: a default row first clears the other defaults of its user
PaymentMethod_save_keeps_defaults(rows, id, row) == (id :> row) @@ rows

PaymentMethod_save(rows, id, row) ==
    LET cleared == [m \in DOMAIN rows |->
                      IF row.is_default /\ rows[m].user = row.user
                      THEN [rows[m] EXCEPT !.is_default = FALSE]
                      ELSE rows[m]]
    IN (id :> row) @@ cleared

get_payment_method_by_stripe_id(k) ==
    {m \in DOMAIN methods : methods[m].stripe_payment_method_id = pm_id(k)}

\* PaymentService._save_payment_method: the table it leaves
_save_payment_method(user, k, is_default) ==
    LET existing == get_payment_method_by_stripe_id(k)
    IN IF existing # {}
       THEN LET m == CHOOSE x \in existing : TRUE
            IN PaymentMethod_save(methods, m,
                                  [methods[m] EXCEPT !.is_default = is_default])
       ELSE PaymentMethod_save(methods, nextMethodId,
                               [user |-> user,
                                stripe_payment_method_id |-> pm_id(k),
                                is_default |-> is_default])

\* the id sequence after _save_payment_method
method_seq_after(k) ==
    IF get_payment_method_by_stripe_id(k) # {} THEN nextMethodId
    ELSE nextMethodId + 1

\* PaymentService.confirm_payment; outcome is the provider's answer to
\* PaymentMethod.attach and PaymentIntent.confirm when they are asked, k the
\* payment method handed in (NULL for none), save the save_payment_method flag
confirm_payment_with(user, i, outcome, k, save) ==
    LET found == i \in DOMAIN intents
        allowed == found /\ may_confirm_payment(user, i)
        already == ~use_mock /\ stripe[i] = SUCCEEDED
        attaches == ~use_mock /\ ~already /\ k # NULL /\ save
        saves == attaches /\ outcome # "attach_error"
        failed == /\ ~use_mock
                  /\ ~already
                  /\ \/ stripe[i] = STRIPE_CANCELED
                     \/ outcome = "card_error"
                     \/ attaches /\ outcome = "attach_error"
        declined == stripe[i] # STRIPE_CANCELED /\ outcome = "card_error"
        status == IF use_mock \/ already \/ outcome = "succeeded"
                  THEN SUCCEEDED ELSE REQUIRES_ACTION
        creates == status = SUCCEEDED /\ payment_missing(i)
        payer == IF already THEN user ELSE intents[i].user
        b == intents[i].booking
    IN
    IF ~allowed
    THEN /\ lastOp' = [Op("confirm_payment",
                          IF found THEN "permission_denied" ELSE "intent_not_found",
                          user, NULL, NULL, NULL, NULL, "", NoEmail)
                       EXCEPT !.intent = i]
         /\ UNCHANGED <<bookVars, cacheVars, payVars>>
    ELSE IF failed
    THEN /\ saves => method_seq_after(k) <= MaxMethods + 1
         /\ stripe' = IF declined
                      THEN [stripe EXCEPT ![i] = REQUIRES_PAYMENT_METHOD]
                      ELSE stripe
         /\ events' = IF declined
                      THEN events \cup {<<"payment_intent.payment_failed", i>>}
                      ELSE events
         /\ methods' = IF saves THEN _save_payment_method(user, k, TRUE)
                       ELSE methods
         /\ nextMethodId' = IF saves THEN method_seq_after(k) ELSE nextMethodId
         /\ lastOp' = [Op("confirm_payment", "stripe_error", user, b, NULL, NULL,
                          NULL, "", NoEmail)
                       EXCEPT !.intent = i, !.method = IF saves THEN k ELSE NULL]
         /\ UNCHANGED <<bookVars, cacheVars, intents, nextIntentId, payments,
                        nextPaymentId, runVars>>
    ELSE /\ creates => nextPaymentId <= MaxPayments
         /\ saves => method_seq_after(k) <= MaxMethods + 1
         /\ stripe' = IF use_mock \/ already THEN stripe
                      ELSE [stripe EXCEPT ![i] = status]
         /\ events' = IF ~use_mock /\ ~already /\ status = SUCCEEDED
                      THEN events \cup {<<"payment_intent.succeeded", i>>}
                      ELSE events
         /\ intents' = [intents EXCEPT
                            ![i].status = status,
                            ![i].payment = IF creates THEN nextPaymentId ELSE @]
         /\ payments' = IF creates THEN create_payment(b, payer, stripe_id(i))
                        ELSE payments
         /\ nextPaymentId' = IF creates THEN nextPaymentId + 1 ELSE nextPaymentId
         /\ bookings' = IF creates THEN Payment_save(b, stripe_id(i)) ELSE bookings
         /\ methods' = IF saves THEN _save_payment_method(user, k, TRUE)
                       ELSE methods
         /\ nextMethodId' = IF saves THEN method_seq_after(k) ELSE nextMethodId
         /\ lastOp' = [Op("confirm_payment", "ok", user, b, NULL, NULL, NULL,
                          status, NoEmail)
                       EXCEPT !.intent = i, !.ref = stripe_id(i),
                              !.method = IF saves THEN k ELSE NULL]
         /\ UNCHANGED <<today, users, properties, nextBookingId, reviews,
                        cacheVars, nextIntentId, runVars>>

\* PaymentService.confirm_payment without a payment method to save
confirm_payment(user, i, outcome) ==
    confirm_payment_with(user, i, outcome, NULL, FALSE)

WebhookTypes ==
    {"payment_intent.succeeded", "payment_intent.payment_failed",
     "payment_intent.canceled"}

\* PaymentController.confirm_guest_payment: the unauthenticated endpoint
\* confirms on behalf of the intent's payer when that account is inactive
confirm_guest_payment(i, outcome) ==
    IF i \notin DOMAIN intents \/ users[intents[i].user].is_active
    THEN /\ lastOp' = [Op("confirm_guest_payment",
                          IF i \notin DOMAIN intents THEN "intent_not_found"
                          ELSE "not_a_guest_payment",
                          NULL, NULL, NULL, NULL, NULL, "", NoEmail)
                       EXCEPT !.intent = i]
         /\ UNCHANGED <<bookVars, cacheVars, payVars>>
    ELSE confirm_payment_with(intents[i].user, i, outcome, NULL, FALSE)

\* the status each handler writes
event_status(type) ==
    CASE type = "payment_intent.succeeded" -> SUCCEEDED
      [] type = "payment_intent.payment_failed" -> REQUIRES_PAYMENT_METHOD
      [] OTHER -> PI_CANCELLED

\* get_payment_intent_by_stripe_id, then update_payment_intent(status=...)
intent_after_event_upsert(type, i) ==
    IF i \notin DOMAIN intents
    THEN intents @@ (i :> [booking |-> NULL, user |-> NULL,
                           status |-> event_status(type), payment |-> NULL,
                           stripe_payment_intent_id |-> stripe_id(i)])
    ELSE [intents EXCEPT ![i].status = event_status(type)]

intent_after_event(type, i) ==
    IF i \notin DOMAIN intents THEN intents
    ELSE [intents EXCEPT ![i].status = event_status(type)]

\* the event just handled is handled again
redelivered(type, i) ==
    /\ lastOp.op = "handle_stripe_webhook"
    /\ lastOp.arg = type
    /\ lastOp.intent = i

\* PaymentService.handle_stripe_webhook on a correctly signed event that the
\* provider emitted; events are delivered in any order, any number of times
handle_stripe_webhook(type, i) ==
    LET found == i \in DOMAIN intents
        creates == found /\ type = "payment_intent.succeeded" /\ payment_missing(i)
        b == intents[i].booking
    IN
    /\ <<type, i>> \in events
    /\ creates => nextPaymentId <= MaxPayments
    /\ intents' = IF creates
                  THEN [intent_after_event(type, i)
                          EXCEPT ![i].payment = nextPaymentId]
                  ELSE intent_after_event(type, i)
    /\ payments' = IF creates
                   THEN create_payment(b, intents[i].user, stripe_id(i))
                   ELSE payments
    /\ nextPaymentId' = IF creates THEN nextPaymentId + 1 ELSE nextPaymentId
    /\ bookings' = IF creates THEN Payment_save(b, stripe_id(i)) ELSE bookings
    /\ lastOp' = [Op("handle_stripe_webhook",
                     IF found THEN "success" ELSE "not_in_database",
                     NULL, NULL, NULL, NULL, NULL, type, NoEmail)
                  EXCEPT !.intent = i, !.rep = redelivered(type, i)]
    /\ UNCHANGED <<today, users, properties, nextBookingId, reviews, cacheVars,
                   nextIntentId, stripe, events, runVars, methodVars>>

\* PaymentService.create_payment_method; outcome is the provider's answer to
\* PaymentMethod.attach, which needs a configured key
create_payment_method(user, k, set_as_default, outcome) ==
    IF use_mock \/ outcome = "attach_error"
    THEN /\ lastOp' = [Op("create_payment_method", "stripe_error", user, NULL,
                          NULL, NULL, NULL, "", NoEmail) EXCEPT !.method = k]
         /\ UNCHANGED <<bookVars, cacheVars, payVars>>
    ELSE /\ method_seq_after(k) <= MaxMethods + 1
         /\ methods' = _save_payment_method(user, k, set_as_default)
         /\ nextMethodId' = method_seq_after(k)
         /\ lastOp' = [Op("create_payment_method", "ok", user, NULL, NULL, NULL,
                          NULL, IF set_as_default THEN "default" ELSE "", NoEmail)
                       EXCEPT !.method = k]
         /\ UNCHANGED <<bookVars, cacheVars, intents, nextIntentId, payments,
                        nextPaymentId, stripe, events, runVars>>

\* PaymentService.update_payment_method
update_payment_method(user, payment_method_id, set_as_default) ==
    LET found == payment_method_id \in DOMAIN methods
        owner == found /\ methods[payment_method_id].user = user
    IN
    /\ methods' = IF owner
                  THEN PaymentMethod_save(methods, payment_method_id,
                                          [methods[payment_method_id]
                                             EXCEPT !.is_default = set_as_default])
                  ELSE methods
    /\ lastOp' = [Op("update_payment_method",
                     CASE ~found -> "not_found"
                       [] ~owner -> "permission_denied"
                       [] OTHER -> "ok",
                     user, NULL, NULL, NULL, NULL,
                     IF set_as_default THEN "default" ELSE "", NoEmail)
                  EXCEPT !.payment = payment_method_id]
    /\ UNCHANGED <<bookVars, cacheVars, intents, nextIntentId, payments,
                   nextPaymentId, stripe, events, runVars, nextMethodId>>

\* the row's provider id, as the number k of pm_id(k)
method_number(payment_method_id) ==
    methods[payment_method_id].stripe_payment_method_id[2]

\* PaymentService.delete_payment_method; outcome is the provider's answer to
\* PaymentMethod.detach, which emits payment_method.detached when it succeeds
delete_payment_method(user, payment_method_id, outcome) ==
    LET found == payment_method_id \in DOMAIN methods
        owner == found /\ methods[payment_method_id].user = user
        detached == owner /\ ~use_mock /\ outcome = "ok"
    IN
    /\ methods' = IF detached
                  THEN [m \in DOMAIN methods \ {payment_method_id} |-> methods[m]]
                  ELSE methods
    /\ events' = IF detached
                 THEN events \cup {<<"payment_method.detached",
                                     method_number(payment_method_id)>>}
                 ELSE events
    /\ lastOp' = [Op("delete_payment_method",
                     CASE ~found -> "not_found"
                       [] ~owner -> "permission_denied"
                       [] ~detached -> "stripe_error"
                       [] OTHER -> "ok",
                     user, NULL, NULL, NULL, NULL, "", NoEmail)
                  EXCEPT !.payment = payment_method_id]
    /\ UNCHANGED <<bookVars, cacheVars, intents, nextIntentId, payments,
                   nextPaymentId, stripe, runVars, nextMethodId>>

\* the customer removes the card pm_k on the provider's side
stripe_detach(k) ==
    /\ ~use_mock
    /\ events' = events \cup {<<"payment_method.detached", k>>}
    /\ lastOp' = [Op("stripe_detach", "ok", NULL, NULL, NULL, NULL, NULL, "",
                     NoEmail) EXCEPT !.method = k]
    /\ UNCHANGED <<bookVars, cacheVars, intents, nextIntentId, payments,
                   nextPaymentId, stripe, runVars, methodVars>>

\* PaymentService.handle_stripe_webhook on a payment_method.detached event
_handle_payment_method_detached(k) ==
    LET existing == get_payment_method_by_stripe_id(k)
    IN
    /\ <<"payment_method.detached", k>> \in events
    /\ methods' = [m \in DOMAIN methods \ existing |-> methods[m]]
    /\ lastOp' = [Op("handle_stripe_webhook",
                     IF existing # {} THEN "success" ELSE "not_in_database",
                     NULL, NULL, NULL, NULL, NULL, "payment_method.detached",
                     NoEmail)
                  EXCEPT !.method = k,
                         !.rep = /\ lastOp.op = "handle_stripe_webhook"
                                 /\ lastOp.arg = "payment_method.detached"
                                 /\ lastOp.method = k]
    /\ UNCHANGED <<bookVars, cacheVars, intents, nextIntentId, payments,
                   nextPaymentId, stripe, events, runVars, nextMethodId>>

\* what update_payment_status leaves in the booking table
booking_after_status_never_unpaid(payment_id, status) ==
    LET q == payments[payment_id]
    IN IF status = PAY_COMPLETED THEN Payment_save(q.booking, q.stripe_payment_intent_id)
       ELSE bookings

booking_after_status_keeps_date(payment_id, status) ==
    LET q == payments[payment_id]
        b == q.booking
    IN IF status = PAY_COMPLETED
       THEN Payment_save(b, q.stripe_payment_intent_id)
       ELSE IF status = PAY_REFUNDED /\ bookings[b].is_paid
       THEN [bookings EXCEPT ![b].is_paid = FALSE]
       ELSE bookings

booking_after_status(payment_id, status) ==
    LET q == payments[payment_id]
        b == q.booking
    IN IF status = PAY_COMPLETED
       THEN \* the service stamps the booking on a first completion, Payment.save
            \* on any completion; both write the same three fields
            Payment_save(b, q.stripe_payment_intent_id)
       ELSE IF status = PAY_REFUNDED /\ bookings[b].is_paid
       THEN [bookings EXCEPT ![b].is_paid = FALSE,
                             ![b].payment_date = NULL,
                             ![b].payment_id = NoRef]
       ELSE bookings

\* PaymentService.update_payment_status (the admin endpoint)
update_payment_status(payment_id, status, user) ==
    LET res == IF payment_id \notin DOMAIN payments THEN "payment_not_found"
               ELSE IF status \notin PaymentStatus THEN "invalid_status"
               ELSE "ok"
    IN
    /\ IF res = "ok"
       THEN /\ bookings' = booking_after_status(payment_id, status)
            /\ payments' = [payments EXCEPT
                                ![payment_id].status = status,
                                ![payment_id].completed_at =
                                    @ \/ status = PAY_COMPLETED]
       ELSE UNCHANGED <<bookings, payments>>
    /\ lastOp' = [Op("update_payment_status", res, user,
                     IF res = "ok" THEN payments[payment_id].booking ELSE NULL,
                     NULL, NULL, NULL, status, NoEmail)
                  EXCEPT !.payment = payment_id,
                         !.before =
                             IF res = "ok"
                             THEN bookings[payments[payment_id].booking].payment_id
                             ELSE NoRef]
    /\ UNCHANGED <<today, users, properties, nextBookingId, reviews, cacheVars,
                   intents, nextIntentId, nextPaymentId, stripe, events, runVars, methodVars>>

\* ------------------------------------------------------------ specifications
\* the booking endpoints never read the payment provider's configuration
Init == InitFrom(SeedUsers, SeedProperties)

InitBookings == Init /\ ~use_mock

\* a second agent, who owns nothing
InitAgents ==
    /\ InitFrom(SeedUsers @@ (4 :> [username |-> <<"eve", 0>>,
                                   email |-> <<"eve", "x">>,
                                   role |-> AGENT, is_active |-> TRUE]),
                SeedProperties)
    /\ ~use_mock

\* status transitions and their effect on the property (one-night stays)
NextBooking ==
    \/ create_booking(3, 1, today, today + 1, NoUserInfo)
    \/ \E b \in 1..MaxBookings, s \in BookingStatus, u \in {1, 3} :
          update_booking_status(b, s, u)
    \/ \E s \in {APPROVED, DENIED} : update_property(1, 2, s, NULL)

SpecBooking == InitBookings /\ [][NextBooking]_vars

\* date validation and availability of create_booking on one property
NextAvail ==
    \/ \E cin \in Days, cout \in Days : create_booking(3, 1, cin, cout, NoUserInfo)
    \/ \E b \in 1..MaxBookings, s \in {CONFIRMED, CANCELLED} :
          update_booking_status(b, s, 1)
    \/ update_property(1, 2, APPROVED, NULL)

SpecAvail == InitBookings /\ [][NextAvail]_vars

\* pricing of create_booking while owners edit their listings
NextPrice ==
    \/ \E p \in {1, 2}, cout \in Days :
          create_booking(3, p, today, cout, NoUserInfo)
    \/ update_property(2, 2, APPROVED, NULL)
    \/ \E p \in {1, 2}, v \in {2550, 10000} : update_property(p, 2, UNSET, v)

SpecPrice == InitBookings /\ [][NextPrice]_vars

\* guest checkout next to authenticated booking
GuestInfos ==
    {[present |-> TRUE, complete |-> c, email |-> e] : c \in BOOLEAN, e \in Emails}

NextGuest ==
    \/ \E info \in GuestInfos, cout \in Days :
          create_booking(NULL, 1, today, cout, info)
    \/ \E tenant \in {NULL, 2, 3} : create_booking(tenant, 1, today, today + 1, NoUserInfo)

SpecGuest == InitBookings /\ [][NextGuest]_vars

\* payment confirmation by the API and by webhooks, for the intents of one
\* booking, made by a tenant or by a guest
NextPay ==
    \/ bookings = << >> /\ create_booking(3, 1, today, today + 1, NoUserInfo)
    \/ /\ bookings = << >>
       /\ create_booking(NULL, 1, today, today + 1,
                         [present |-> TRUE, complete |-> TRUE,
                          email |-> <<"bob", "x">>])
    \/ repo_create_payment_intent(1)
    \/ \E i \in 1..MaxIntents, o \in {"succeeded", "canceled"} :
          stripe_client(i, o)
    \/ \E u \in {2, 3}, i \in 1..MaxIntents,
          o \in {"succeeded", "requires_action", "card_error"} :
          confirm_payment(u, i, o)
    \/ \E t \in WebhookTypes, i \in 1..MaxIntents : handle_stripe_webhook(t, i)

SpecPay == Init /\ [][NextPay]_vars

\* requests for a payment intent, before and after the booking is paid
NextIntent ==
    \/ create_booking(3, 1, today, today + 1, NoUserInfo)
    \/ create_booking(NULL, 1, today, today + 1,
                      [present |-> TRUE, complete |-> TRUE, email |-> <<"bob", "x">>])
    \/ \E u \in {NULL, 2, 3}, b \in 1..MaxBookings : create_payment_intent(u, b)
    \/ \E b \in 1..MaxBookings : repo_create_payment_intent(b)
    \/ \E i \in 1..MaxIntents : confirm_payment(1, i, "succeeded")

SpecIntent == Init /\ [][NextIntent]_vars

\* reads of the cached detail view between the writes to a booking
ExternalRef == <<"ref", 1>>

NextCache ==
    \/ create_booking(3, 1, today, today + 1, NoUserInfo)
    \/ get_booking(1)
    \/ cache_expire(1)
    \/ \E st \in {CONFIRMED, COMPLETED} : update_booking_status(1, st, 1)
    \/ mark_booking_as_paid(1, ExternalRef, 1)
    \/ \E paid \in BOOLEAN : update_booking_payment(1, paid, ExternalRef, 1)
    \/ create_booking_review(1, 3)
    \/ delete_booking(1, 1)
    \/ repo_create_payment_intent(1)
    \/ confirm_payment(3, 1, "succeeded")

SpecCache == Init /\ [][NextCache]_vars

\* reviews of a tenant's bookings as they move through their statuses
NextReview ==
    \/ create_booking(3, 1, today, today + 1, NoUserInfo)
    \/ \E b \in 1..MaxBookings, st \in {CONFIRMED, COMPLETED, CANCELLED} :
          update_booking_status(b, st, 1)
    \/ \E b \in 1..MaxBookings, u \in {1, 2, 3} : create_booking_review(b, u)

SpecReview == InitBookings /\ [][NextReview]_vars

\* the intents of one booking under webhook deliveries; a new intent enters
\* only while the booking is unpaid and has no intent that is still open
open_intents(booking_id) ==
    {i \in DOMAIN intents :
        /\ intents[i].booking = booking_id
        /\ intents[i].status \notin {SUCCEEDED, PI_CANCELLED}}

NextActive ==
    \/ bookings = << >> /\ create_booking(3, 1, today, today + 1, NoUserInfo)
    \/ /\ 1 \in DOMAIN bookings
       /\ ~bookings[1].is_paid
       /\ open_intents(1) = {}
       /\ repo_create_payment_intent(1)
    \/ \E u \in {NULL, 3} : create_payment_intent(u, 1)
    \/ \E i \in 1..MaxIntents, o \in {"succeeded", "failed", "canceled"} :
          stripe_client(i, o)
    \/ \E i \in 1..MaxIntents, o \in {"succeeded", "card_error"} :
          confirm_payment(3, i, o)
    \/ \E t \in WebhookTypes, i \in 1..MaxIntents : handle_stripe_webhook(t, i)

SpecActive == Init /\ [][NextActive]_vars

\* a paid booking under re-confirmation, admin status changes of its payment
\* and admin changes of its paid flag
NextSettle ==
    \/ bookings = << >> /\ create_booking(3, 1, today, today + 1, NoUserInfo)
    \/ intents = << >> /\ repo_create_payment_intent(1)
    \/ \E o \in {"succeeded", "requires_action"} : confirm_payment(3, 1, o)
    \/ handle_stripe_webhook("payment_intent.succeeded", 1)
    \/ \E q \in 1..MaxPayments,
          st \in {PAY_COMPLETED, PAY_REFUNDED, "failed", "paid"} :
          update_payment_status(q, st, 1)
    \/ \E paid \in BOOLEAN : update_booking_payment(1, paid, ExternalRef, 1)
    \/ mark_booking_as_paid(1, ExternalRef, 3)

SpecSettle == Init /\ [][NextSettle]_vars

\* ------------------------------------ payments/services.py, step by step
\* confirm_payment and _handle_payment_intent_succeeded as the requests of two
\* workers run them: no transaction and no lock spans the steps

\* get_payment_intent_by_stripe_id: the request reads the row into its copy
handler_read(p, kind, user, i) ==
    /\ procs[p].pc = "idle"
    /\ i \in DOMAIN intents
    /\ IF kind = "confirm_payment"
       THEN may_confirm_payment(user, i) /\ (~use_mock => stripe[i] # STRIPE_CANCELED)
       ELSE <<"payment_intent.succeeded", i>> \in events
    /\ procs' = [procs EXCEPT ![p] =
                    [pc |-> "read", kind |-> kind, user |-> user, intent |-> i,
                     status |-> intents[i].status,
                     payment |-> intents[i].payment, made |-> NULL]]
    /\ lastOp' = [Op("handler_read", kind, user, NULL, NULL, NULL, NULL, p,
                     NoEmail) EXCEPT !.intent = i]
    /\ UNCHANGED <<bookVars, cacheVars, intents, nextIntentId, payments,
                   nextPaymentId, stripe, events, use_mock, limiter, methodVars>>

\* confirm_payment asks the provider, which answers succeeded (and emits the
\* event); then either handler saves its copy with status succeeded when the
\* copy's status differs: Model.save writes every column of the copy
handler_mark(p) ==
    LET c == procs[p]
        i == c.intent
        asks == c.kind = "confirm_payment" /\ ~use_mock
        writes == c.kind # "confirm_payment" \/ c.status # SUCCEEDED
    IN
    /\ c.pc = "read"
    /\ i \in DOMAIN intents
    /\ stripe' = IF asks THEN [stripe EXCEPT ![i] = SUCCEEDED] ELSE stripe
    /\ events' = IF asks THEN events \cup {<<"payment_intent.succeeded", i>>}
                 ELSE events
    /\ intents' = IF writes
                  THEN [intents EXCEPT ![i].status = SUCCEEDED,
                                       ![i].payment = c.payment]
                  ELSE intents
    /\ procs' = [procs EXCEPT ![p].pc = "marked", ![p].status = SUCCEEDED]
    /\ lastOp' = [Op("handler_mark", c.kind, c.user, NULL, NULL, NULL, NULL, p,
                     NoEmail) EXCEPT !.intent = i]
    /\ UNCHANGED <<bookVars, cacheVars, nextIntentId, payments, nextPaymentId,
                   use_mock, limiter, methodVars>>

\* `if not db_payment_intent.payment`, asked of the copy: create the Payment
handler_create(p) ==
    LET c == procs[p]
        i == c.intent
        b == intents[i].booking
    IN
    /\ c.pc = "marked"
    /\ i \in DOMAIN intents
    /\ IF c.payment = NULL
       THEN /\ nextPaymentId <= MaxPayments
            /\ payments' = create_payment(b, intents[i].user, stripe_id(i))
            /\ nextPaymentId' = nextPaymentId + 1
            /\ bookings' = Payment_save(b, stripe_id(i))
            /\ procs' = [procs EXCEPT ![p].pc = "created",
                                      ![p].made = nextPaymentId]
       ELSE /\ procs' = [procs EXCEPT ![p] = Idle]
            /\ UNCHANGED <<payments, nextPaymentId, bookings>>
    /\ lastOp' = [Op("handler_create", c.kind, c.user, b, NULL, NULL, NULL, p,
                     NoEmail)
                  EXCEPT !.intent = i,
                         !.payment = IF c.payment = NULL THEN nextPaymentId
                                     ELSE NULL]
    /\ UNCHANGED <<today, users, properties, nextBookingId, reviews, cacheVars,
                   intents, nextIntentId, stripe, events, use_mock, limiter, methodVars>>

\* update_payment_intent(db_payment_intent, payment=payment): the copy is
\* saved again, now with the payment the request made
handler_link(p) ==
    LET c == procs[p]
        i == c.intent
    IN
    /\ c.pc = "created"
    /\ i \in DOMAIN intents
    /\ intents' = [intents EXCEPT ![i].status = c.status, ![i].payment = c.made]
    /\ procs' = [procs EXCEPT ![p] = Idle]
    /\ lastOp' = [Op("handler_link", c.kind, c.user, NULL, NULL, NULL, NULL, p,
                     NoEmail) EXCEPT !.intent = i, !.payment = c.made]
    /\ UNCHANGED <<bookVars, cacheVars, nextIntentId, payments, nextPaymentId,
                   stripe, events, use_mock, limiter, methodVars>>

\* webhook deliveries, repeated and late: one booking with one intent, the
\* provider's three outcomes, the booking's deletion, and saved cards
NextRedeliver ==
    \/ bookings = << >> /\ create_booking(3, 1, today, today + 1, NoUserInfo)
    \/ intents = << >> /\ repo_create_payment_intent(1)
    \/ \E o \in {"succeeded", "failed", "canceled"} : stripe_client(1, o)
    \/ \E t \in WebhookTypes : handle_stripe_webhook(t, 1)
    \/ delete_booking(1, 1)
    \/ \E k \in 1..MaxMethods : create_payment_method(3, k, TRUE, "ok")
    \/ \E k \in 1..MaxMethods : stripe_detach(k)
    \/ \E k \in 1..MaxMethods : _handle_payment_method_detached(k)

SpecRedeliver == InitBookings /\ [][NextRedeliver]_vars

\* who may confirm: a booking of a logged-in tenant or of a guest, an intent
\* whose payer is the tenant (either strategy) or the admin who asked for it
\* (LoggedInPaymentStrategy), confirmed by anyone through either endpoint
NextConfirm ==
    \/ bookings = << >> /\ create_booking(3, 1, today, today + 1, NoUserInfo)
    \/ /\ bookings = << >>
       /\ create_booking(NULL, 1, today, today + 1,
                         [present |-> TRUE, complete |-> TRUE,
                          email |-> <<"bob", "x">>])
    \/ /\ 1 \in DOMAIN bookings
       /\ \E u \in {1, bookings[1].tenant} : repo_create_payment_intent_for(u, 1)
    \/ \E u \in DOMAIN users, i \in 1..MaxIntents,
          o \in {"succeeded", "card_error"} : confirm_payment(u, i, o)
    \/ \E i \in 1..MaxIntents, o \in {"succeeded", "card_error"} :
          confirm_guest_payment(i, o)

SpecConfirm == Init /\ [][NextConfirm]_vars

\* saved cards of two users: created, made default or not, deleted, detached
\* at the provider, and saved while a payment is confirmed
NextMethods ==
    \/ bookings = << >> /\ create_booking(3, 1, today, today + 1, NoUserInfo)
    \/ intents = << >> /\ repo_create_payment_intent(1)
    \/ \E k \in 1..MaxMethods, o \in {"succeeded", "card_error", "attach_error"} :
          confirm_payment_with(3, 1, o, k, TRUE)
    \/ \E u \in {2, 3}, k \in 1..MaxMethods, d \in BOOLEAN,
          o \in {"ok", "attach_error"} : create_payment_method(u, k, d, o)
    \/ \E u \in {2, 3}, m \in 1..MaxMethods, d \in BOOLEAN :
          update_payment_method(u, m, d)
    \/ \E u \in {2, 3}, m \in 1..MaxMethods, o \in {"ok", "error"} :
          delete_payment_method(u, m, o)
    \/ \E k \in 1..MaxMethods : _handle_payment_method_detached(k)

SpecMethods == Init /\ [][NextMethods]_vars

\* the default payment methods of a user
defaults_of(user) ==
    {m \in DOMAIN methods : methods[m].user = user /\ methods[m].is_default}

\* two workers serve confirm_payment calls and payment_intent.succeeded
\* deliveries for the one intent of a booking, their steps interleaved
NextRace ==
    \/ bookings = << >> /\ create_booking(3, 1, today, today + 1, NoUserInfo)
    \/ intents = << >> /\ repo_create_payment_intent(1)
    \/ stripe_client(1, "succeeded")
    \/ \E p \in ProcIds : handler_read(p, "confirm_payment", 3, 1)
    \/ \E p \in ProcIds : handler_read(p, "payment_intent.succeeded", NULL, 1)
    \/ \E p \in ProcIds : handler_mark(p)
    \/ \E p \in ProcIds : handler_create(p)
    \/ \E p \in ProcIds : handler_link(p)

SpecRace == Init /\ [][NextRace]_vars

\* the Payment rows made for intent i
payments_of_intent(i) ==
    {q \in DOMAIN payments : payments[q].stripe_payment_intent_id = stripe_id(i)}

\* ---------------------------------------------- house_rental/decorators.py
\* time passes
tick ==
    /\ limiter.now < MaxTime
    /\ limiter' = [limiter EXCEPT !.now = @ + 1]
    /\ lastOp' = Op("tick", "ok", NULL, NULL, NULL, NULL, NULL, "", NoEmail)
    /\ UNCHANGED <<bookVars, cacheVars, intents, nextIntentId, payments,
                   nextPaymentId, stripe, events, use_mock, procs, methodVars>>

\* what the decorator does with the entry it was handed: the entry it stores
\* and whether the view runs
rate_limit(rate_data, now) ==
    IF rate_data.count = 0 \/ now - rate_data.timestamp > period
    THEN [data |-> [count |-> 1, timestamp |-> now, expires |-> now + period],
          passes |-> TRUE]
    ELSE IF rate_data.count >= limit
    THEN [data |-> rate_data, passes |-> FALSE]
    ELSE [data |-> [rate_data EXCEPT !.count = @ + 1, !.expires = now + period],
          passes |-> TRUE]

\* one request of the client to the wrapped view; cache.get finds the entry
\* while it has not expired, and may or may not at the instant it expires
wrapped_view(found) ==
    LET now == limiter.now
        stored == limiter.data
        rate_data == IF found THEN stored ELSE NoData
        r == rate_limit(rate_data, now)
    IN
    /\ found => stored.count > 0 /\ now <= stored.expires
    /\ ~found => stored.count = 0 \/ now >= stored.expires
    /\ limiter' = [limiter EXCEPT
                      !.data = r.data,
                      !.passed[now] = IF r.passes THEN @ + 1 ELSE @]
    /\ lastOp' = Op("wrapped_view", IF r.passes THEN "passed" ELSE "429", NULL,
                    NULL, NULL, now, NULL, IF found THEN "hit" ELSE "miss",
                    NoEmail)
    /\ UNCHANGED <<bookVars, cacheVars, intents, nextIntentId, payments,
                   nextPaymentId, stripe, events, use_mock, procs, methodVars>>

RECURSIVE passed_between(_, _)
\* the number of requests that reached the view at the instants from..to
passed_between(from, to) ==
    IF from > to \/ from > MaxTime THEN 0
    ELSE limiter.passed[from] + passed_between(from + 1, to)

NextLimit ==
    \/ tick
    \/ \E found \in BOOLEAN : wrapped_view(found)

SpecLimit == InitBookings /\ [][NextLimit]_vars

\* ------------------------------------- bookings/api.py, payments/api.py
\* the ValueError message behind an outcome, word by word
message_of(res) ==
    CASE res = "property_not_found" -> <<"Property", "with", "ID", "not", "found">>
      [] res = "booking_not_found" -> <<"Booking", "with", "ID", "not", "found">>
      [] res = "intent_not_found" ->
            <<"Payment", "intent", "with", "ID", "not", "found">>
      [] res = "permission_denied" ->
            <<"You", "don't", "have", "permission">>
      [] res = "invalid_transition" -> <<"Invalid", "status", "transition">>
      [] res = "bad_dates" ->
            <<"Check-out", "date", "must", "be", "after", "check-in", "date">>
      [] res = "already_paid" -> <<"This", "booking", "is", "already", "paid">>
      [] res = "stripe_error" -> <<"Error", "confirming", "payment">>
      [] OTHER -> <<res>>

\* `"not found" in str(e)`
has_not_found(msg) ==
    \E k \in 1..(Len(msg) - 1) : msg[k] = "not" /\ msg[k + 1] = "found"

\* the HTTP status the controller answers with for a service outcome
api_response(op, res) ==
    CASE op \in {"update_booking_status", "mark_booking_as_paid"} ->
            IF res = "ok" THEN 200
            ELSE IF has_not_found(message_of(res)) THEN 404
            ELSE 400
      [] op = "confirm_payment" -> IF res = "ok" THEN 200 ELSE 400
      [] op \in {"create_booking", "create_payment_intent"} ->
            IF res = "ok" THEN 201
            ELSE IF res = "attribute_error" THEN 500
            ELSE 400
      [] OTHER -> 200

ApiOps ==
    {"create_booking", "update_booking_status", "mark_booking_as_paid",
     "confirm_payment", "create_payment_intent"}

NotFoundOutcomes == {"property_not_found", "booking_not_found", "intent_not_found"}

\* the outcomes of a well-addressed request that is refused
BadRequestOutcomes ==
    {"bad_dates", "invalid_transition", "permission_denied", "already_paid",
     "stripe_error"}

\* the five endpoints, called with ids that exist and ids that do not
NextApi ==
    \/ \E pid \in {1, 3}, cout \in {today, today + 1} :
          create_booking(3, pid, today, cout, NoUserInfo)
    \/ \E b \in 1..MaxBookings, s \in {CONFIRMED, COMPLETED} :
          update_booking_status(b, s, 3)
    \/ \E b \in 1..MaxBookings, u \in {2, 3} : mark_booking_as_paid(b, ExternalRef, u)
    \/ \E b \in 1..MaxBookings : create_payment_intent(3, b)
    \/ intents = << >> /\ repo_create_payment_intent(1)
    \/ \E u \in {2, 3}, i \in 1..MaxIntents : confirm_payment(u, i, "succeeded")

SpecApi == Init /\ [][NextApi]_vars

\* bookings of a tenant and of a guest, deleted by anyone
NextDelete ==
    \/ create_booking(3, 1, today, today + 1, NoUserInfo)
    \/ create_booking(NULL, 1, today, today + 1,
                      [present |-> TRUE, complete |-> TRUE, email |-> <<"bob", "x">>])
    \/ \E b \in 1..MaxBookings : update_booking_status(b, CONFIRMED, 1)
    \/ \E b \in 1..MaxBookings, u \in DOMAIN users : delete_booking(b, u)

SpecDelete == InitAgents /\ [][NextDelete]_vars

\* ------------------------------------------------------------------ claims
ValidationErrors ==
    {"property_not_found", "property_not_approved", "past_check_in", "bad_dates",
     "minimum_stay", "dates_unavailable"}

\* C1: update_booking_status succeeds only along pending->confirmed,
\* pending->cancelled, confirmed->cancelled, confirmed->completed; any other
\* request by a permitted caller fails as an invalid transition and writes no
\* booking; a cancelled or completed booking keeps its status.
C1_Table ==
    {<<PENDING, CONFIRMED>>, <<PENDING, CANCELLED>>,
     <<CONFIRMED, CANCELLED>>, <<CONFIRMED, COMPLETED>>}

C1_TransitionTable ==
    [][lastOp'.op = "update_booking_status" =>
        LET b == lastOp'.bid
            s == lastOp'.arg
        IN /\ lastOp'.res = "ok" =>
                /\ b \in DOMAIN bookings
                /\ <<bookings[b].status, s>> \in C1_Table
                /\ bookings'[b].status = s
           /\ (/\ b \in DOMAIN bookings
               /\ may_update_booking(lastOp'.caller, b)
               /\ <<bookings[b].status, s>> \notin C1_Table)
                => lastOp'.res = "invalid_transition"
           /\ lastOp'.res # "ok" => bookings' = bookings
           /\ \A x \in DOMAIN bookings :
                bookings[x].status \in {CANCELLED, COMPLETED}
                => bookings'[x].status = bookings[x].status
    ]_vars

C1_Witness ==
    /\ lastOp.op = "update_booking_status"
    /\ lastOp.res = "invalid_transition"
    /\ lastOp.arg = CONFIRMED
    /\ bookings[lastOp.bid].status = COMPLETED

\* C2: with a CONFIRMED booking [D1,D2) on the property, create_booking
\* rejects every range with c_in < D2 and c_out > D1, and accepts a range that
\* overlaps no confirmed booking (also one starting on D2 or ending on D1)
\* when the other validations pass.
C2_Confirmed(pid) ==
    {b \in DOMAIN bookings :
        bookings[b].property = pid /\ bookings[b].status = CONFIRMED}

C2_Availability ==
    [][(lastOp'.op = "create_booking" /\ C2_Confirmed(lastOp'.pid) # {}) =>
        LET pid == lastOp'.pid
            cin == lastOp'.cin
            cout == lastOp'.cout
            clash == \E b \in C2_Confirmed(pid) :
                        /\ cin < bookings[b].check_out_date
                        /\ cout > bookings[b].check_in_date
            others_pass == /\ properties[pid].status = APPROVED
                           /\ cin >= today
                           /\ cout > cin
                           /\ lastOp'.caller # NULL
                           /\ users[lastOp'.caller].role \in {TENANT, ADMIN}
        IN /\ clash => (lastOp'.res # "ok" /\ bookings' = bookings)
           /\ (~clash /\ others_pass) =>
                /\ lastOp'.res = "ok"
                /\ DOMAIN bookings' = DOMAIN bookings \cup {lastOp'.bid}
                /\ lastOp'.bid \notin DOMAIN bookings
                /\ bookings'[lastOp'.bid].check_in_date = cin
                /\ bookings'[lastOp'.bid].check_out_date = cout
    ]_vars

C2_Witness ==
    /\ lastOp.op = "create_booking"
    /\ lastOp.res = "ok"
    /\ \E b \in DOMAIN bookings :
          /\ bookings[b].property = lastOp.pid
          /\ bookings[b].status = CONFIRMED
          /\ bookings[b].check_out_date = lastOp.cin

\* C3: a create_payment_intent call that repeats the preceding call for the
\* same unpaid booking (tenant, admin or guest variant) returns a provider
\* intent id, the one the preceding call returned, and leaves exactly one
\* PaymentIntent row for the booking.
C3_IdempotentIntent ==
    (/\ lastOp.op = "create_payment_intent"
     /\ lastOp.rep
     /\ lastOp.bid \in DOMAIN bookings
     /\ ~bookings[lastOp.bid].is_paid
     /\ \/ lastOp.caller = NULL
        \/ lastOp.caller = bookings[lastOp.bid].tenant
        \/ users[lastOp.caller].role = ADMIN) =>
        /\ lastOp.res = "ok"
        /\ lastOp.ref # NoRef
        /\ lastOp.ref = lastOp.before
        /\ Cardinality({i \in DOMAIN intents :
                            intents[i].booking = lastOp.bid}) = 1

\* C4: every intent has at most one Payment row; an intent whose stored
\* status is succeeded, or for which confirm_payment just answered succeeded
\* or a payment_intent.succeeded webhook was just handled, has exactly one.
C4_Payments(i) ==
    {q \in DOMAIN payments :
        payments[q].stripe_payment_intent_id = stripe_id(i)}

C4_OnePaymentPerIntent ==
    /\ \A i \in DOMAIN intents :
          /\ Cardinality(C4_Payments(i)) <= 1
          /\ intents[i].status = SUCCEEDED => C4_Payments(i) = {intents[i].payment}
    /\ (/\ lastOp.op = "confirm_payment"
        /\ lastOp.res = "ok"
        /\ lastOp.arg = SUCCEEDED) => Cardinality(C4_Payments(lastOp.intent)) = 1
    /\ (/\ lastOp.op = "handle_stripe_webhook"
        /\ lastOp.res = "success"
        /\ lastOp.arg = "payment_intent.succeeded")
            => Cardinality(C4_Payments(lastOp.intent)) = 1

C4_Witness ==
    /\ lastOp.op = "handle_stripe_webhook"
    /\ lastOp.arg = "payment_intent.succeeded"
    /\ lastOp.res = "success"
    /\ intents[lastOp.intent].payment # NULL
    /\ payments[intents[lastOp.intent].payment].user # intents[lastOp.intent].user

\* C5: get_booking returns the booking's current stored state, or nothing
\* when the booking does not exist, whatever writes came before it.
C5_FreshReads ==
    lastOp.op = "get_booking" =>
        got = IF lastOp.bid \in DOMAIN bookings THEN view_of(lastOp.bid) ELSE NoView

\* C6: a move to CONFIRMED leaves the property rented; a move to CANCELLED or
\* COMPLETED leaves it approved when no other CONFIRMED booking remains on it
\* and leaves a rented property rented when one does.
C6_PropertyFollows ==
    [][(lastOp'.op = "update_booking_status" /\ lastOp'.res = "ok") =>
        LET b == lastOp'.bid
            s == lastOp'.arg
            pid == bookings[b].property
            others == {x \in DOMAIN bookings' \ {b} :
                         /\ bookings'[x].property = pid
                         /\ bookings'[x].status = CONFIRMED}
        IN /\ s = CONFIRMED => properties'[pid].status = RENTED
           /\ (s \in {CANCELLED, COMPLETED} /\ others = {})
                => properties'[pid].status = APPROVED
           /\ (s \in {CANCELLED, COMPLETED} /\ others # {}
               /\ properties[pid].status = RENTED)
                => properties'[pid].status = RENTED
    ]_vars

C6_Witness ==
    /\ lastOp.op = "update_booking_status"
    /\ lastOp.res = "ok"
    /\ lastOp.arg = CANCELLED
    /\ properties[bookings[lastOp.bid].property].status = RENTED
    /\ \E x \in DOMAIN bookings \ {lastOp.bid} :
          /\ bookings[x].property = bookings[lastOp.bid].property
          /\ bookings[x].status = CONFIRMED

\* C7: a guest create_booking whose user_info email belongs to an active user
\* creates no user and no booking, fails with "please log in" when everything
\* else is valid, and no guest booking gets an active account as tenant.
C7_ActiveEmailRejected ==
    [][(lastOp'.op = "create_booking" /\ lastOp'.caller = NULL) =>
        LET owned == \E u \in DOMAIN users :
                        users[u].email = lastOp'.email /\ users[u].is_active
            valid == /\ lastOp'.pid \in DOMAIN properties
                     /\ properties[lastOp'.pid].status = APPROVED
                     /\ lastOp'.cin >= today
                     /\ lastOp'.cout > lastOp'.cin
                     /\ lastOp'.arg = "complete"
                     /\ check_property_availability(lastOp'.pid, lastOp'.cin,
                                                    lastOp'.cout)
        IN /\ owned => /\ lastOp'.res # "ok"
                       /\ users' = users
                       /\ bookings' = bookings
           /\ (owned /\ valid) => lastOp'.res = "please_log_in"
           /\ lastOp'.res = "ok" =>
                ~users'[bookings'[lastOp'.bid].tenant].is_active
    ]_vars

C7_Witness ==
    /\ lastOp.op = "create_booking"
    /\ lastOp.caller = NULL
    /\ lastOp.res = "please_log_in"
    /\ \E u \in DOMAIN users : users[u].email = lastOp.email /\ users[u].is_active

\* C8: a valid guest create_booking whose email matches no user creates
\* exactly one user, inactive, with role tenant and that email, and exactly
\* one booking whose tenant is that user.
C8_NovelGuest ==
    [][(/\ lastOp'.op = "create_booking"
        /\ lastOp'.caller = NULL
        /\ lastOp'.arg = "complete"
        /\ lastOp'.pid \in DOMAIN properties
        /\ properties[lastOp'.pid].status = APPROVED
        /\ lastOp'.cin >= today
        /\ lastOp'.cout > lastOp'.cin
        /\ check_property_availability(lastOp'.pid, lastOp'.cin, lastOp'.cout)
        /\ ~\E u \in DOMAIN users : users[u].email = lastOp'.email) =>
        /\ lastOp'.res = "ok"
        /\ Cardinality(DOMAIN users' \ DOMAIN users) = 1
        /\ \A u \in DOMAIN users : users'[u] = users[u]
        /\ \A u \in DOMAIN users' \ DOMAIN users :
              /\ ~users'[u].is_active
              /\ users'[u].role = TENANT
              /\ users'[u].email = lastOp'.email
              /\ DOMAIN bookings' \ DOMAIN bookings = {lastOp'.bid}
              /\ bookings'[lastOp'.bid].tenant = u
        /\ \A b \in DOMAIN bookings : bookings'[b] = bookings[b]
    ]_vars

C8_Witness ==
    /\ lastOp.op = "create_booking"
    /\ lastOp.caller = NULL
    /\ lastOp.res = "ok"
    /\ bookings[lastOp.bid].tenant \notin DOMAIN SeedUsers
    /\ users[bookings[lastOp.bid].tenant].username = <<"ann", 1>>
    /\ Cardinality({u \in DOMAIN users : users[u].email = lastOp.email}) = 1

\* C9: the booking create_booking inserts has total_price equal to the
\* property's price_per_night times the nights between check-in and check-out.
C9_TotalPrice ==
    (lastOp.op = "create_booking" /\ lastOp.res = "ok") =>
        bookings[lastOp.bid].total_price =
            properties[lastOp.pid].price_per_night * (lastOp.cout - lastOp.cin)

C9_Witness ==
    /\ lastOp.op = "create_booking"
    /\ lastOp.res = "ok"
    /\ lastOp.cout - lastOp.cin = 2
    /\ bookings[lastOp.bid].total_price = 5100

\* C10: every booking row has check_out_date > check_in_date, and a
\* create_booking request with check_out_date <= check_in_date fails with a
\* validation error and creates neither a booking nor a user.
C10_DatesOrdered ==
    [][/\ \A b \in DOMAIN bookings' :
            bookings'[b].check_out_date > bookings'[b].check_in_date
       /\ (lastOp'.op = "create_booking" /\ lastOp'.cout <= lastOp'.cin) =>
            /\ lastOp'.res \in ValidationErrors
            /\ bookings' = bookings
            /\ users' = users
    ]_vars

C10_Witness ==
    /\ lastOp.op = "create_booking"
    /\ lastOp.caller = NULL
    /\ lastOp.arg = "complete"
    /\ lastOp.cout = lastOp.cin
    /\ lastOp.cin >= today
    /\ lastOp.res = "bad_dates"
    /\ ~\E u \in DOMAIN users : users[u].email = lastOp.email

\* C11: create_booking_review succeeds exactly when the caller is the
\* booking's tenant, the booking is completed and it has no review; a success
\* adds the one review of that booking, a failure leaves the reviews as they
\* were.
C11_ReviewOnce ==
    [][lastOp'.op = "create_booking_review" =>
        LET b == lastOp'.bid
            entitled == /\ b \in DOMAIN bookings
                        /\ lastOp'.caller = bookings[b].tenant
                        /\ bookings[b].status = COMPLETED
                        /\ b \notin reviews
        IN /\ (lastOp'.res = "ok") <=> entitled
           /\ lastOp'.res = "ok" => reviews' = reviews \cup {b}
           /\ lastOp'.res = "ok" => Cardinality(reviews') = Cardinality(reviews) + 1
           /\ lastOp'.res # "ok" => reviews' = reviews
    ]_vars

C11_Witness ==
    /\ lastOp.op = "create_booking_review"
    /\ lastOp.res = "already_reviewed"
    /\ lastOp.bid \in reviews
    /\ bookings[lastOp.bid].status = COMPLETED

C14_SucceededIsFinal ==
    [][(/\ lastOp'.op = "handle_stripe_webhook"
        /\ lastOp'.arg \in {"payment_intent.payment_failed",
                            "payment_intent.canceled"}
        /\ lastOp'.intent \in DOMAIN intents
        /\ intents[lastOp'.intent].status = SUCCEEDED)
            => intents'[lastOp'.intent].status = SUCCEEDED
    ]_vars


\* C15: handling a webhook event (payment_intent.succeeded, payment_failed,
\* canceled, payment_method.detached) a second time, right after it was
\* handled, changes no PaymentIntent, Payment, PaymentMethod or Booking row
C15_RedeliveryIdempotent ==
    [][(lastOp'.op = "handle_stripe_webhook" /\ lastOp'.rep)
          => UNCHANGED <<intents, payments, methods, bookings>>
    ]_vars

\* a payment_intent.succeeded event was handled twice in a row for an intent
\* whose payment it had created
C15_Witness ==
    /\ lastOp.op = "handle_stripe_webhook"
    /\ lastOp.rep
    /\ lastOp.arg = "payment_intent.succeeded"
    /\ lastOp.intent \in DOMAIN intents
    /\ intents[lastOp.intent].payment # NULL

\* C16: a succeeded, failed or canceled event for an intent id that has no
\* local row is answered with the soft not-found result and writes nothing
C16_UnknownIntent ==
    [][(/\ lastOp'.op = "handle_stripe_webhook"
        /\ lastOp'.arg \in WebhookTypes
        /\ lastOp'.intent \notin DOMAIN intents)
          => /\ lastOp'.res = "not_in_database"
             /\ UNCHANGED <<intents, payments, bookings>>
    ]_vars

\* an event was handled after the booking's deletion took its intent away
C16_Witness ==
    /\ lastOp.op = "handle_stripe_webhook"
    /\ lastOp.arg \in WebhookTypes
    /\ lastOp.res = "not_in_database"
    /\ lastOp.intent \notin DOMAIN intents

\* C17: confirm_payment by a caller who is neither the intent's payer nor an
\* admin, for an intent whose payer is an active account, is rejected with the
\* permission error and changes no row
C17_ActivePayerOnly ==
    [][(/\ lastOp'.op = "confirm_payment"
        /\ lastOp'.intent \in DOMAIN intents
        /\ lastOp'.caller # intents[lastOp'.intent].user
        /\ users[lastOp'.caller].role # ADMIN
        /\ users[intents[lastOp'.intent].user].is_active)
          => /\ lastOp'.res = "permission_denied"
             /\ UNCHANGED <<bookVars, payVars>>
    ]_vars

\* C18: when update_payment_status has moved a payment to completed, the
\* payment's booking is paid with its payment date and reference set; when it
\* has moved it to refunded, the booking is unpaid with both cleared
C18_StatusMovesBooking ==
    (/\ lastOp.op = "update_payment_status"
     /\ lastOp.res = "ok"
     /\ lastOp.arg \in {PAY_COMPLETED, PAY_REFUNDED})
        => LET b == bookings[lastOp.bid]
           IN IF lastOp.arg = PAY_COMPLETED
              THEN b.is_paid /\ b.payment_date # NULL /\ b.payment_id # NoRef
              ELSE ~b.is_paid /\ b.payment_date = NULL /\ b.payment_id = NoRef

\* a payment was refunded while its booking was paid (lastOp.before is the
\* booking's reference when the call was made): the booking is unpaid now
C18_Witness ==
    /\ lastOp.op = "update_payment_status"
    /\ lastOp.res = "ok"
    /\ lastOp.arg = PAY_REFUNDED
    /\ lastOp.before # NoRef
    /\ ~bookings[lastOp.bid].is_paid

\* a payment was completed again while its booking was unpaid
C18_CompletedAgain ==
    /\ lastOp.op = "update_payment_status"
    /\ lastOp.res = "ok"
    /\ lastOp.arg = PAY_COMPLETED
    /\ lastOp.before = NoRef
    /\ bookings[lastOp.bid].is_paid

\* C19: marking a booking paid sets is_paid, payment_date and the reference
\* together, unmarking clears all three, and an unpaid booking never has a
\* payment date or a payment reference
C19_PaidFieldsTogether ==
    /\ \A b \in DOMAIN bookings :
          ~bookings[b].is_paid =>
              bookings[b].payment_date = NULL /\ bookings[b].payment_id = NoRef
    /\ (/\ lastOp.op \in {"mark_booking_as_paid", "update_booking_payment"}
        /\ lastOp.res = "ok")
          => LET b == bookings[lastOp.bid]
             IN IF lastOp.op = "mark_booking_as_paid" \/ lastOp.arg = "paid"
                THEN /\ b.is_paid
                     /\ b.payment_date = today
                     /\ b.payment_id = lastOp.ref
                     /\ lastOp.ref # NoRef
                ELSE ~b.is_paid /\ b.payment_date = NULL /\ b.payment_id = NoRef

\* a booking paid through a confirmed intent was unmarked by the admin
C19_Witness ==
    /\ lastOp.op = "update_booking_payment"
    /\ lastOp.res = "ok"
    /\ lastOp.arg = "unpaid"
    /\ ~bookings[lastOp.bid].is_paid
    /\ \E q \in DOMAIN payments : payments[q].booking = lastOp.bid

\* C20: every user has at most one default payment method, and a method just
\* saved as default (by create_payment_method, update_payment_method or while
\* confirm_payment saves it) is the only default of its user
C20_OneDefault ==
    /\ \A u \in DOMAIN users : Cardinality(defaults_of(u)) <= 1
    /\ (/\ lastOp.op = "update_payment_method"
        /\ lastOp.res = "ok"
        /\ lastOp.arg = "default")
          => defaults_of(methods[lastOp.payment].user) = {lastOp.payment}
    /\ (/\ \/ lastOp.op = "create_payment_method" /\ lastOp.arg = "default"
           \/ lastOp.op = "confirm_payment" /\ lastOp.method # NULL
        /\ lastOp.res \in {"ok", "stripe_error"}
        /\ lastOp.op = "create_payment_method" => lastOp.res = "ok")
          => \E m \in get_payment_method_by_stripe_id(lastOp.method) :
                defaults_of(methods[m].user) = {m}

\* a user with two saved methods has just saved one of them as default: it is
\* the default and the other one is not
C20_Witness ==
    /\ lastOp.op \in {"update_payment_method", "create_payment_method"}
    /\ lastOp.res = "ok"
    /\ lastOp.arg = "default"
    /\ \E m1, m2 \in DOMAIN methods :
          /\ m1 # m2
          /\ methods[m1].user = methods[m2].user
          /\ methods[m2].is_default
          /\ ~methods[m1].is_default

\* C21: create_payment_intent fails and creates no PaymentIntent row when the
\* booking does not exist, when it is already paid, or (authenticated variant)
\* when the caller is neither the tenant nor an admin; it never creates an
\* intent for a paid booking
C21_IntentPreconditions ==
    [][lastOp'.op = "create_payment_intent" =>
        LET b == lastOp'.bid
            u == lastOp'.caller
            known == b \in DOMAIN bookings
            stranger == /\ known
                        /\ u # NULL
                        /\ bookings[b].tenant # u
                        /\ users[u].role # ADMIN
        IN /\ ~known => lastOp'.res = "booking_not_found"
           /\ stranger => lastOp'.res = "permission_denied"
           /\ (known /\ bookings[b].is_paid) =>
                  lastOp'.res \in {"already_paid", "permission_denied"}
           /\ (~known \/ stranger \/ bookings[b].is_paid) =>
                  UNCHANGED <<intents, nextIntentId, stripe>>
    ]_vars

\* the tenant or a guest asked for an intent on a booking that is paid
C21_Witness ==
    /\ lastOp.op = "create_payment_intent"
    /\ lastOp.res = "already_paid"
    /\ bookings[lastOp.bid].is_paid
    /\ intents # << >>

\* C22: a guest create_booking whose email belongs to an inactive account
\* creates no user and, when it succeeds, has that account as tenant: however
\* many guest bookings are made with one email, one user row has that email
C22_GuestAccountReused ==
    [][(/\ lastOp'.op = "create_booking"
        /\ lastOp'.caller = NULL
        /\ \E u \in users_with_email(lastOp'.email) : ~users[u].is_active)
          => /\ users' = users
             /\ Cardinality({u \in DOMAIN users' :
                                users'[u].email = lastOp'.email}) = 1
             /\ lastOp'.res = "ok" =>
                    bookings'[lastOp'.bid].tenant \in users_with_email(lastOp'.email)
    ]_vars

\* two guest bookings made with one email share one inactive tenant account
C22_Witness ==
    /\ lastOp.op = "create_booking"
    /\ lastOp.caller = NULL
    /\ lastOp.res = "ok"
    /\ \E b \in DOMAIN bookings :
          /\ b # lastOp.bid
          /\ bookings[b].tenant = bookings[lastOp.bid].tenant
          /\ ~users[bookings[b].tenant].is_active
          /\ users_with_email(lastOp.email) = {bookings[b].tenant}

\* C23: with a confirm_payment call and a payment_intent.succeeded delivery
\* (or two confirm_payment calls) for one intent interleaved, at most one
\* Payment row is created for that intent
C23_OnePaymentUnderRace ==
    \A i \in 1..MaxIntents : Cardinality(payments_of_intent(i)) <= 1

\* C24: at the API an unknown property, booking or intent id is answered with
\* a status that no refused request with known ids gets, for create_booking,
\* update_booking_status, mark_booking_as_paid, confirm_payment and
\* create_payment_intent
C24_NotFoundDistinct ==
    (lastOp.op \in ApiOps /\ lastOp.res \in NotFoundOutcomes) =>
        \A v \in BadRequestOutcomes :
            api_response(lastOp.op, lastOp.res) # api_response(lastOp.op, v)

\* C25: delete_booking removes the booking only for its tenant, the owner of
\* its property or an admin; any other caller gets the permission error and
\* the booking row stays
C25_DeleteGuarded ==
    [][(lastOp'.op = "delete_booking" /\ lastOp'.bid \in DOMAIN bookings) =>
        LET b == lastOp'.bid
            u == lastOp'.caller
            entitled == \/ u = bookings[b].tenant
                        \/ u = properties[bookings[b].property].owner
                        \/ users[u].role = ADMIN
        IN /\ ~entitled => /\ lastOp'.res = "permission_denied"
                           /\ bookings' = bookings
           /\ b \notin DOMAIN bookings' => entitled
           /\ entitled => lastOp'.res = "ok" /\ b \notin DOMAIN bookings'
    ]_vars

\* an agent who does not own the property was refused
C25_Witness ==
    /\ lastOp.op = "delete_booking"
    /\ lastOp.res = "permission_denied"
    /\ users[lastOp.caller].role = AGENT
    /\ lastOp.bid \in DOMAIN bookings
    /\ properties[bookings[lastOp.bid].property].owner # lastOp.caller

\* C26: the rate limiter is a sliding window: in any interval of length
\* period at most limit requests of one client to one action reach the view
C26_SlidingWindow ==
    \A t \in 0..MaxTime : passed_between(t, t + period - 1) <= limit

\* C27: no two CONFIRMED bookings of one property have overlapping date ranges
\* (b1.check_in < b2.check_out and b1.check_out > b2.check_in)
C27_NoConfirmedOverlap ==
    \A b1, b2 \in DOMAIN bookings :
        (/\ b1 # b2
         /\ bookings[b1].property = bookings[b2].property
         /\ bookings[b1].status = CONFIRMED
         /\ bookings[b2].status = CONFIRMED)
            => ~(/\ bookings[b1].check_in_date < bookings[b2].check_out_date
                 /\ bookings[b1].check_out_date > bookings[b2].check_in_date)

\* C28: property 1 starts approved with no bookings and only create_booking,
\* update_booking_status and delete_booking act on it: it is rented if and
\* only if a CONFIRMED booking exists on it
C28_RentedIffConfirmed ==
    properties[1].status = RENTED
        <=> \E b \in DOMAIN bookings :
                bookings[b].property = 1 /\ bookings[b].status = CONFIRMED

\* C29: update_booking_status changes a property's status only between
\* approved and rented; cancelling a PENDING booking on a property whose
\* status is denied or pending leaves that property's status unchanged
C29_OnlyApprovedRented ==
    [][(lastOp'.op = "update_booking_status" /\ lastOp'.res = "ok")
        => \A p \in DOMAIN properties :
              /\ properties'[p].status # properties[p].status
                    => {properties[p].status, properties'[p].status}
                          = {APPROVED, RENTED}
              /\ (/\ lastOp'.bid \in DOMAIN bookings
                  /\ bookings[lastOp'.bid].property = p
                  /\ bookings[lastOp'.bid].status = PENDING
                  /\ lastOp'.arg = CANCELLED
                  /\ properties[p].status \in {DENIED, P_PENDING})
                    => properties'[p].status = properties[p].status]_vars

\* C30: a booking's is_paid flag becomes true only through a completed
\* Payment for that booking or through an admin's payment update; a tenant
\* or agent cannot set it on a booking that has no completed Payment
C30_PaidOnlyByPayment ==
    [][\A b \in DOMAIN bookings \cap DOMAIN bookings' :
          (~bookings[b].is_paid /\ bookings'[b].is_paid)
             => \/ \E q \in DOMAIN payments' :
                      /\ payments'[q].booking = b
                      /\ payments'[q].status = PAY_COMPLETED
                \/ /\ lastOp'.caller \in DOMAIN users
                   /\ users[lastOp'.caller].role = ADMIN]_vars

====
